---- MODULE Spec2Model ----
(***************************************************************************)
(* GRPO trainer of finetune-mlx/grpo.py.                                   *)
(*                                                                         *)
(* Spec      main() as a state machine: one action per statement group of  *)
(*           main, grpo_step taken in two actions (everything up to the    *)
(*           gradient, then the optimizer update), and the script started  *)
(*           again on the same output directory.                           *)
(* SpecStep  the same main(), for short runs, with grpo_step taken         *)
(*           statement by statement (generation loop, rewards and          *)
(*           advantages, reference log-prob loop, loss, update).           *)
(***************************************************************************)
EXTENDS Integers, Sequences, FiniteSets, TLC

VARIABLES
    run,             \* how many times the script has been started
    args,            \* parsed command line: [steps, eval_only, adapter]
    pc,              \* position in main / grpo_step
    step,            \* loop variable of main's for loop (0 before the loop)
    policy,          \* weights of policy_model (Unloaded before load)
    ref,             \* weights of ref_model (Unloaded before load)
    updates,         \* optimizer.update calls of this run
    failed,          \* which call raised, "none" while nothing has
    storage,         \* files on disk: path |-> weights, kept across runs
    dirs,            \* directories on disk, kept across runs
    saved,           \* this run's save_lora_weights calls, in order
    evals,           \* this run's evaluate calls, in order
    query,           \* grpo_step: the step's query (0 outside a step)
    completions,     \* grpo_step: completions
    rewards,         \* grpo_step: rewards, in units of 1/140
    advantages,      \* grpo_step: advantages
    ref_log_probs,   \* grpo_step: ref_log_probs
    terms,           \* loss_fn: what each iteration of its loop combined
    seen,            \* grpo_step: optimizer state (update count) each read of policy_model saw
    arg,             \* a call of one function on its own: its arguments
    result           \* a call of one function on its own: what it returned

mainVars == <<run, args, pc, step, policy, ref, updates, failed>>
mainVarsButPc == <<run, args, step, policy, ref, updates, failed>>
diskVars == <<storage, dirs>>
logVars  == <<saved, evals>>
stepVars == <<query, completions, rewards, advantages, ref_log_probs, terms, seen>>
callVars == <<arg, result>>
vars     == <<mainVars, diskVars, logVars, stepVars, callVars>>

(***************************************************************************)
(* Bounds of the model.                                                    *)
(***************************************************************************)
MaxSteps       == 100   \* largest --steps of Spec
MaxDetailSteps == 2     \* largest --steps of SpecStep
MaxRuns        == 2     \* starts of the script on one output directory
MaxParam       == 1     \* weights are values 0..MaxParam
MaxQuery       == 2     \* training queries are 1..MaxQuery

(***************************************************************************)
(* CONFIG                                                                  *)
(***************************************************************************)
num_generations == 4
save_every      == 50
eval_every      == 50

sft_adapter    == "adapters/qwen3-3500"
custom_adapter == "adapters/custom"
NoAdapter      == "None"

Unloaded == 0 - 1
Weights  == 0 .. MaxParam

\* load(base_model, adapter_path=p): the weights stored under p.
AdapterWeights(p) == IF p = sft_adapter THEN 0 ELSE 1

TRAINING_QUERIES == 1 .. MaxQuery

\* What generate() can return: token sequences, the empty one included.
Texts == { <<>>, <<0>>, <<1, 0>> }

\* --steps values: the ones around each multiple of save_every.
StepsInputs == { n \in 0 .. MaxSteps : n % save_every <= 1 }

ArgsInputs(S) ==
    [ steps : S, eval_only : BOOLEAN, adapter : {NoAdapter, sft_adapter, custom_adapter} ]

(***************************************************************************)
(* Pure helpers                                                            *)
(***************************************************************************)
RECURSIVE Digits(_)
Digits(n) == IF n < 10 THEN <<n>> ELSE Append(Digits(n \div 10), n % 10)

RECURSIVE ZeroPad(_, _)
ZeroPad(s, w) == IF Len(s) >= w THEN s ELSE ZeroPad(<<0>> \o s, w)

CkptName_LastDigit(s) == ZeroPad(<< s % 10 >>, 4)

\* f"ckpt_{step:04d}": the digits of the directory's name.
CkptName(s) == ZeroPad(Digits(s), 4)

\* Paths below output_dir, as the name of the sub-directory holding
\* adapters.safetensors: none for output_dir itself.
OutputDir == <<>>

CkptPath_Latest(s) == CkptName(0)

CkptPath(s) == CkptName(s)

\* save_lora_weights(model, output_dir)
WriteFile(st, p, w) == [ q \in DOMAIN st \cup {p} |-> IF q = p THEN w ELSE st[q] ]

RECURSIVE SumSeq(_)
SumSeq(s) == IF s = <<>> THEN 0 ELSE s[1] + SumSeq(Tail(s))

(***************************************************************************)
(* The model and the scorer are external: fixed tables stand for them.     *)
(***************************************************************************)
\* tokenizer.encode(PROMPT_TEMPLATE.format(query=q)): the query's token and
\* the assistant marker.
PromptTokens(q) == <<q, 0>>

\* nn.log_softmax(model(tokens)[k])[tok] for a model of weights w: a function
\* of the weights, of the tokens up to position k (causal) and of tok.
TokenLogProb(w, ctx, tok) == 0 - (1 + ((w + SumSeq(ctx) + tok) % 3))

\* score_expansion_detailed(query, completion)['total'], in 0..140.
ScoreDetailedTotal(q, c) == 40 * Len(c) + 10 * SumSeq(c) + 10 * q

(***************************************************************************)
(* grpo.py's pure functions                                                *)
(***************************************************************************)
\* compute_reward, in units of 1/140.
compute_reward(q, c) == ScoreDetailedTotal(q, c)

\* compute_log_prob(model, tokenizer, prompt, completion): the sum, over the
\* positions j of the completion span, of the log-prob the logits row j-1
\* (computed from tokens 0..j-1) gives to token j.
RECURSIVE GatherSum(_, _, _, _)
GatherSum(w, tokens, prompt_len, j) ==
    IF prompt_len + j >= Len(tokens) THEN 0
    ELSE TokenLogProb(w, SubSeq(tokens, 1, prompt_len + j), tokens[prompt_len + j + 1])
         + GatherSum(w, tokens, prompt_len, j + 1)

compute_log_prob(w, q, c) ==
    LET tokens     == PromptTokens(q) \o c
        prompt_len == Len(PromptTokens(q))
    IN  GatherSum(w, tokens, prompt_len, 0)

Deviation_FromFirst(rs, i) == Len(rs) * rs[i] - Len(rs) * rs[1]

\* sum(rewards) / len(rewards) has denominator 140 * len(rewards): r - mean_reward
\* is Deviation / (140 * len(rewards)).
Deviation(rs, i) == Len(rs) * rs[i] - SumSeq(rs)

SumSqDev(rs) == SumSeq([ j \in 1 .. Len(rs) |-> Deviation(rs, j) * Deviation(rs, j) ])

\* advantages[i] = (r - mean_reward) / std_reward, kept exact: its numerator
\* and the sum of squares that std_reward is the root of (plus the 1e-8 floor).
Advantage(rs, i) == [ num |-> Deviation(rs, i), sumsq |-> SumSqDev(rs) ]

(***************************************************************************)
(* State after the interpreter starts main(): nothing loaded, empty disk.  *)
(***************************************************************************)
NoFiles == [ q \in {} |-> 0 ]

\* main() runs: no function is called on its own.
NoCall == arg = <<>> /\ result = <<>>

StepLocalsCleared ==
    /\ query = 0
    /\ completions = <<>>
    /\ rewards = <<>>
    /\ advantages = <<>>
    /\ ref_log_probs = <<>>
    /\ terms = <<>>
    /\ seen = <<>>

ProcessStarts(S) ==
    /\ args \in ArgsInputs(S)
    /\ pc = "load"
    /\ step = 0
    /\ policy = Unloaded
    /\ ref = Unloaded
    /\ updates = 0
    /\ failed = "none"
    /\ saved = <<>>
    /\ evals = <<>>
    /\ StepLocalsCleared

Init ==
    /\ run = 1
    /\ storage = NoFiles
    /\ dirs = {}
    /\ NoCall
    /\ ProcessStarts(StepsInputs)

InitStep ==
    /\ run = 1
    /\ storage = NoFiles
    /\ dirs = {}
    /\ NoCall
    /\ ProcessStarts(0 .. MaxDetailSteps)

Raise_CaughtAndContinued(what) ==
    /\ pc' = "loop"
    /\ failed' = what

\* An exception leaves main: nothing of the run executes after it.
Raise(what) ==
    /\ pc' = "aborted"
    /\ failed' = what

\* What a read of policy_model observes: the weights, after so many updates.
PolicyRead == [ version |-> updates, weights |-> policy ]

EvalRecord_OfReference(kind) ==
    [ step |-> step, weights |-> ref, version |-> updates, kind |-> kind ]

\* evaluate(policy_model, tokenizer): what the pass observed.
EvalRecord(kind) ==
    [ step |-> step, weights |-> policy, version |-> updates, kind |-> kind ]

\* save_lora_weights(policy_model, p): what was written, and where.
SaveRecord(p, kind) ==
    [ path |-> p, step |-> step, weights |-> policy, version |-> updates, kind |-> kind ]

(***************************************************************************)
(* main()                                                                  *)
(***************************************************************************)
\* policy_model, tokenizer = load(base_model, adapter_path=args.adapter or sft_adapter)
PolicyAdapter == IF args.adapter = NoAdapter THEN sft_adapter ELSE args.adapter

RefAdapter_Other == custom_adapter

\* ref_model, _ = load(base_model, adapter_path=sft_adapter)
RefAdapter == sft_adapter

AfterLoad_AlwaysTrain == "load_ref"

\* if args.eval_only: ... return
AfterLoad == IF args.eval_only THEN "eval_only" ELSE "load_ref"

LoopContinues_Inclusive(s, n) == s <= n

\* range(1, n + 1): whether a step follows step s
LoopContinues(s, n) == s < n

IsSaveStep_ZeroBased(s) == (s - 1) % save_every = 0

\* step % config["save_every"] == 0
IsSaveStep(s) == s % save_every = 0

\* step % config["eval_every"] == 0
IsEvalStep(s) == s % eval_every = 0

LoadPolicy ==
    /\ pc = "load"
    /\ UNCHANGED callVars
    /\ policy' = AdapterWeights(PolicyAdapter)
    /\ pc' = AfterLoad
    /\ UNCHANGED <<run, args, step, ref, updates, failed>>
    /\ UNCHANGED <<diskVars, logVars, stepVars>>

\* if args.eval_only: evaluate, print, return
EvalOnly ==
    /\ pc = "eval_only"
    /\ UNCHANGED callVars
    /\ \E ok \in BOOLEAN :
          IF ok
          THEN /\ evals' = Append(evals, EvalRecord("eval_only"))
               /\ pc' = "done"
               /\ UNCHANGED failed
          ELSE /\ Raise("evaluation")
               /\ UNCHANGED evals
    /\ UNCHANGED <<run, args, step, policy, ref, updates, saved>>
    /\ UNCHANGED <<diskVars, stepVars>>

\* ref_model = load(base_model, adapter_path=sft_adapter); freeze; Adam;
\* output_dir.mkdir(parents=True, exist_ok=True)
LoadRef ==
    /\ pc = "load_ref"
    /\ UNCHANGED callVars
    /\ ref' = AdapterWeights(RefAdapter)
    /\ dirs' = dirs \cup {OutputDir}
    /\ pc' = "loop"
    /\ UNCHANGED <<run, args, step, policy, updates, failed, storage>>
    /\ UNCHANGED <<logVars, stepVars>>

\* for step in range(1, config["max_steps"] + 1)
LoopHead ==
    /\ pc = "loop"
    /\ UNCHANGED callVars
    /\ IF LoopContinues(step, args.steps)
       THEN /\ step' = step + 1
            /\ pc' = "grpo"
       ELSE /\ pc' = "final_save"
            /\ UNCHANGED step
    /\ UNCHANGED <<run, args, policy, ref, updates, failed>>
    /\ UNCHANGED <<diskVars, logVars, stepVars>>

\* query = random.choice(TRAINING_QUERIES); grpo_step(...) up to the gradient
\* (steps 1 to 6 of grpo_step), as one action.
GrpoCompute ==
    /\ pc = "grpo"
    /\ UNCHANGED callVars
    /\ \E outcome \in {"ok", "generation", "gradient"} :
          IF outcome = "ok"
          THEN /\ pc' = "update"
               /\ UNCHANGED failed
          ELSE Raise(outcome)
    /\ UNCHANGED <<run, args, step, policy, ref, updates>>
    /\ UNCHANGED <<diskVars, logVars, stepVars>>

GrpoUpdate_RefAliased ==
    /\ pc = "update"
    /\ UNCHANGED callVars
    /\ policy' \in Weights
    /\ ref' = policy'
    /\ updates' = updates + 1
    /\ pc' = "save"
    /\ query' = 0
    /\ completions' = <<>>
    /\ rewards' = <<>>
    /\ advantages' = <<>>
    /\ ref_log_probs' = <<>>
    /\ terms' = <<>>
    /\ seen' = <<>>
    /\ UNCHANGED <<run, args, step, failed>>
    /\ UNCHANGED <<diskVars, logVars>>

GrpoUpdate_SkipsZeroAdvantages ==
    /\ pc = "update"
    /\ UNCHANGED callVars
    /\ IF advantages # <<>> /\ \A i \in 1 .. Len(advantages) : advantages[i].num = 0
       THEN UNCHANGED <<policy, updates>>
       ELSE /\ policy' \in Weights
            /\ updates' = updates + 1
    /\ pc' = "save"
    /\ query' = 0
    /\ completions' = <<>>
    /\ rewards' = <<>>
    /\ advantages' = <<>>
    /\ ref_log_probs' = <<>>
    /\ terms' = <<>>
    /\ seen' = <<>>
    /\ UNCHANGED <<run, args, step, ref, failed>>
    /\ UNCHANGED <<diskVars, logVars>>

\* optimizer.update(policy_model, grads); mx.eval; return to main; the log line.
\* grpo_step's locals end with the call.
GrpoUpdate ==
    /\ pc = "update"
    /\ UNCHANGED callVars
    /\ policy' \in Weights
    /\ updates' = updates + 1
    /\ pc' = "save"
    /\ query' = 0
    /\ completions' = <<>>
    /\ rewards' = <<>>
    /\ advantages' = <<>>
    /\ ref_log_probs' = <<>>
    /\ terms' = <<>>
    /\ seen' = <<>>
    /\ UNCHANGED <<run, args, step, ref, failed>>
    /\ UNCHANGED <<diskVars, logVars>>

\* if step % save_every == 0: save_lora_weights(policy_model, output_dir / f"ckpt_{step:04d}")
SaveCheckpoint ==
    /\ pc = "save"
    /\ UNCHANGED callVars
    /\ IF IsSaveStep(step)
       THEN \E ok \in BOOLEAN :
               IF ok
               THEN /\ dirs' = dirs \cup {CkptPath(step)}
                    /\ storage' = WriteFile(storage, CkptPath(step), policy)
                    /\ saved' = Append(saved, SaveRecord(CkptPath(step), "periodic"))
                    /\ pc' = "eval"
                    /\ UNCHANGED failed
               ELSE /\ Raise("checkpoint")
                    /\ UNCHANGED <<dirs, storage, saved>>
       ELSE /\ pc' = "eval"
            /\ UNCHANGED <<failed, dirs, storage, saved>>
    /\ UNCHANGED <<run, args, step, policy, ref, updates, evals>>
    /\ UNCHANGED stepVars

\* if step % eval_every == 0: evaluate(policy_model, tokenizer)
PeriodicEval ==
    /\ pc = "eval"
    /\ UNCHANGED callVars
    /\ IF IsEvalStep(step)
       THEN \E ok \in BOOLEAN :
               IF ok
               THEN /\ evals' = Append(evals, EvalRecord("periodic"))
                    /\ pc' = "loop"
                    /\ UNCHANGED failed
               ELSE /\ Raise("evaluation")
                    /\ UNCHANGED evals
       ELSE /\ pc' = "loop"
            /\ UNCHANGED <<failed, evals>>
    /\ UNCHANGED <<run, args, step, policy, ref, updates, saved>>
    /\ UNCHANGED <<diskVars, stepVars>>

FinalSave_SkippedAfterCheckpoint ==
    /\ pc = "final_save"
    /\ UNCHANGED callVars
    /\ \E ok \in BOOLEAN :
          IF step > 0 /\ IsSaveStep(step)
          THEN /\ pc' = "final_eval"
               /\ UNCHANGED <<failed, dirs, storage, saved>>
          ELSE IF ok
          THEN /\ dirs' = dirs \cup {OutputDir}
               /\ storage' = WriteFile(storage, OutputDir, policy)
               /\ saved' = Append(saved, SaveRecord(OutputDir, "final"))
               /\ pc' = "final_eval"
               /\ UNCHANGED failed
          ELSE /\ Raise("final_save")
               /\ UNCHANGED <<dirs, storage, saved>>
    /\ UNCHANGED <<run, args, step, policy, ref, updates, evals>>
    /\ UNCHANGED stepVars

\* save_lora_weights(policy_model, output_dir)
FinalSave ==
    /\ pc = "final_save"
    /\ UNCHANGED callVars
    /\ \E ok \in BOOLEAN :
          IF ok
          THEN /\ dirs' = dirs \cup {OutputDir}
               /\ storage' = WriteFile(storage, OutputDir, policy)
               /\ saved' = Append(saved, SaveRecord(OutputDir, "final"))
               /\ pc' = "final_eval"
               /\ UNCHANGED failed
          ELSE /\ Raise("final_save")
               /\ UNCHANGED <<dirs, storage, saved>>
    /\ UNCHANGED <<run, args, step, policy, ref, updates, evals>>
    /\ UNCHANGED stepVars

\* r = evaluate(policy_model, tokenizer); print; "Done!"
FinalEval ==
    /\ pc = "final_eval"
    /\ UNCHANGED callVars
    /\ \E ok \in BOOLEAN :
          IF ok
          THEN /\ evals' = Append(evals, EvalRecord("final"))
               /\ pc' = "done"
               /\ UNCHANGED failed
          ELSE /\ Raise("evaluation")
               /\ UNCHANGED evals
    /\ UNCHANGED <<run, args, step, policy, ref, updates, saved>>
    /\ UNCHANGED <<diskVars, stepVars>>

\* The script is started again: a new process, the same disk.
StartRun ==
    /\ pc \in {"done", "aborted"}
    /\ UNCHANGED callVars
    /\ run < MaxRuns
    /\ run' = run + 1
    /\ args' \in ArgsInputs(StepsInputs)
    /\ pc' = "load"
    /\ step' = 0
    /\ policy' = Unloaded
    /\ ref' = Unloaded
    /\ updates' = 0
    /\ failed' = "none"
    /\ saved' = <<>>
    /\ evals' = <<>>
    /\ UNCHANGED <<diskVars, stepVars>>

Next ==
    \/ LoadPolicy
    \/ EvalOnly
    \/ LoadRef
    \/ LoopHead
    \/ GrpoCompute
    \/ GrpoUpdate
    \/ SaveCheckpoint
    \/ PeriodicEval
    \/ FinalSave
    \/ FinalEval
    \/ StartRun

Spec == Init /\ [][Next]_vars

(***************************************************************************)
(* grpo_step(), statement by statement                                     *)
(***************************************************************************)
\* query = random.choice(TRAINING_QUERIES); prompt = PROMPT_TEMPLATE.format(query=query)
PickQuery ==
    /\ pc = "grpo"
    /\ UNCHANGED callVars
    /\ query' \in TRAINING_QUERIES
    /\ pc' = "generate"
    /\ UNCHANGED <<completions, rewards, advantages, ref_log_probs, terms, seen>>
    /\ UNCHANGED <<run, args, step, policy, ref, updates, failed>>
    /\ UNCHANGED <<diskVars, logVars>>

Generate_UpdatesPerCompletion ==
    /\ pc = "generate"
    /\ UNCHANGED callVars
    /\ \E ok \in BOOLEAN :
          IF ok
          THEN /\ \E comp \in Texts : completions' = Append(completions, comp)
               /\ seen' = Append(seen, PolicyRead)
               /\ pc' = IF Len(completions) + 1 < num_generations THEN "generate" ELSE "score"
               /\ policy' \in Weights
               /\ updates' = updates + 1
               /\ UNCHANGED failed
          ELSE /\ Raise("generation")
               /\ UNCHANGED <<completions, seen, policy, updates>>
    /\ UNCHANGED <<query, rewards, advantages, ref_log_probs, terms>>
    /\ UNCHANGED <<run, args, step, ref>>
    /\ UNCHANGED <<diskVars, logVars>>

\* One iteration of: for i in range(num_generations):
\*     _, comp = generate_completion(policy_model, ...); completions.append(comp)
Generate ==
    /\ pc = "generate"
    /\ UNCHANGED callVars
    /\ \E ok \in BOOLEAN :
          IF ok
          THEN /\ \E comp \in Texts : completions' = Append(completions, comp)
               /\ seen' = Append(seen, PolicyRead)
               /\ pc' = IF Len(completions) + 1 < num_generations THEN "generate" ELSE "score"
               /\ UNCHANGED failed
          ELSE /\ Raise("generation")
               /\ UNCHANGED <<completions, seen>>
    /\ UNCHANGED <<query, rewards, advantages, ref_log_probs, terms>>
    /\ UNCHANGED <<run, args, step, policy, ref, updates>>
    /\ UNCHANGED <<diskVars, logVars>>

\* rewards = [compute_reward(query, c) for c in completions]; mean_reward;
\* std_reward; advantages = [(r - mean_reward) / std_reward for r in rewards]
ScoreGroup ==
    /\ pc = "score"
    /\ UNCHANGED callVars
    /\ LET rs == [ i \in 1 .. Len(completions) |-> compute_reward(query, completions[i]) ]
       IN  /\ rewards' = rs
           /\ advantages' = [ i \in 1 .. Len(rs) |-> Advantage(rs, i) ]
    /\ pc' = "ref_lp"
    /\ UNCHANGED <<query, completions, ref_log_probs, terms, seen>>
    /\ UNCHANGED <<mainVarsButPc, diskVars, logVars>>

\* One iteration of: for comp in completions:
\*     ref_lp = compute_log_prob(ref_model, tokenizer, prompt, comp); ref_log_probs.append(ref_lp)
RefLogProb ==
    /\ pc = "ref_lp"
    /\ UNCHANGED callVars
    /\ LET comp == completions[Len(ref_log_probs) + 1]
       IN  ref_log_probs' = Append(ref_log_probs, compute_log_prob(ref, query, comp))
    /\ pc' = IF Len(ref_log_probs) + 1 < Len(completions) THEN "ref_lp" ELSE "loss"
    /\ UNCHANGED <<query, completions, rewards, advantages, terms, seen>>
    /\ UNCHANGED <<mainVarsButPc, diskVars, logVars>>

Min(a, b) == IF a < b THEN a ELSE b

LossTerm_RefShifted(i) ==
    LET policy_lp == compute_log_prob(policy, query, completions[i])
        k         == (i % Len(ref_log_probs)) + 1
    IN  [ comp      |-> completions[i],
          adv       |-> advantages[i],
          ref_lp    |-> ref_log_probs[k],
          policy_lp |-> policy_lp,
          kl        |-> policy_lp - ref_log_probs[k] ]

\* loss_fn's loop body for the i-th triple of zip(completions, advantages, ref_log_probs)
LossTerm(i) ==
    LET policy_lp == compute_log_prob(policy, query, completions[i])
    IN  [ comp      |-> completions[i],
          adv       |-> advantages[i],
          ref_lp    |-> ref_log_probs[i],
          policy_lp |-> policy_lp,
          kl        |-> policy_lp - ref_log_probs[i] ]

\* (loss, kl), grads = nn.value_and_grad(policy_model, loss_fn)(policy_model)
LossGrad ==
    /\ pc = "loss"
    /\ UNCHANGED callVars
    /\ \E ok \in BOOLEAN :
          IF ok
          THEN /\ terms' = [ i \in 1 .. Min(Len(completions), Min(Len(advantages), Len(ref_log_probs)))
                               |-> LossTerm(i) ]
               /\ seen' = Append(seen, PolicyRead)
               /\ pc' = "update"
               /\ UNCHANGED failed
          ELSE /\ Raise("gradient")
               /\ UNCHANGED <<terms, seen>>
    /\ UNCHANGED <<query, completions, rewards, advantages, ref_log_probs>>
    /\ UNCHANGED <<run, args, step, policy, ref, updates>>
    /\ UNCHANGED <<diskVars, logVars>>

NextStep ==
    \/ LoadPolicy
    \/ EvalOnly
    \/ LoadRef
    \/ LoopHead
    \/ PickQuery
    \/ Generate
    \/ ScoreGroup
    \/ RefLogProb
    \/ LossGrad
    \/ GrpoUpdate
    \/ SaveCheckpoint
    \/ PeriodicEval
    \/ FinalSave
    \/ FinalEval

SpecStep == InitStep /\ [][NextStep]_vars

(***************************************************************************)
(* Vocabulary of the properties                                            *)
(***************************************************************************)
Training == ~args.eval_only

SameRun == run' = run

PeriodicSaves == SelectSeq(saved, LAMBDA r : r.kind = "periodic")
FinalSaves    == SelectSeq(saved, LAMBDA r : r.kind = "final")
FinalEvals    == SelectSeq(evals, LAMBDA r : r.kind = "final")

\* The multiples of save_every in 1..n, ascending.
SaveSteps(n) == [ i \in 1 .. (n \div save_every) |-> i * save_every ]

\* The steps whose `if step % save_every == 0` has been passed.
StepsDecided == IF pc \in {"grpo", "generate", "score", "ref_lp", "loss", "update", "save"}
                THEN step - 1 ELSE step

InStep == pc \in {"generate", "score", "ref_lp", "loss", "update"}

StepFailed == failed \in {"generation", "gradient"}

(***************************************************************************)
(* C1: in a failure-free training run the step index goes 0, 1, .., n by   *)
(* ones, the number of optimizer updates equals the number of completed    *)
(* steps (n at the end), and the periodic checkpoints written so far are   *)
(* exactly one per multiple of save_every passed, in order, each written   *)
(* to that step's directory after that step's update.                      *)
(***************************************************************************)
C1_State ==
    (Training /\ failed = "none") =>
        /\ step \in 0 .. args.steps
        /\ updates = (IF pc \in {"grpo", "update"} THEN step - 1 ELSE step)
        /\ [ i \in 1 .. Len(PeriodicSaves) |-> PeriodicSaves[i].step ] = SaveSteps(StepsDecided)
        /\ \A i \in 1 .. Len(PeriodicSaves) :
              /\ PeriodicSaves[i].version = PeriodicSaves[i].step
              /\ PeriodicSaves[i].version >= 1
              /\ PeriodicSaves[i].path = CkptName(PeriodicSaves[i].step)
        /\ pc = "done" => (step = args.steps /\ updates = args.steps)

C1_Move ==
    SameRun =>
        /\ step' \in {step, step + 1}
        /\ updates' \in {updates, updates + 1}
        /\ step' = step + 1 <=> (pc = "loop" /\ pc' = "grpo")

\* C1: steps 1..n by ones, one update per step, one checkpoint per multiple of save_every.
C1_StepsUpdatesCheckpoints == []C1_State /\ [][C1_Move]_vars

C1_Witness ==
    /\ Training /\ failed = "none" /\ pc = "done"
    /\ args.steps = 2 * save_every
    /\ updates = 2 * save_every
    /\ Len(PeriodicSaves) = 2

(***************************************************************************)
(* C2: when the step loop of a training run ends, the policy is saved to   *)
(* the output directory whatever the last step was, after the last update, *)
(* and one final evaluation of that same policy follows the save and       *)
(* precedes the end of the run.                                            *)
(***************************************************************************)
C2_State ==
    (Training /\ pc \in {"final_eval", "done"}) =>
        /\ step = args.steps /\ updates = args.steps
        /\ Len(FinalSaves) = 1
        /\ saved # <<>>
        /\ LET f == saved[Len(saved)]
           IN  /\ f.kind = "final" /\ f.path = OutputDir
               /\ f.weights = policy /\ f.version = updates
        /\ OutputDir \in DOMAIN storage /\ storage[OutputDir] = policy
        /\ Len(FinalEvals) = (IF pc = "done" THEN 1 ELSE 0)
        /\ pc = "done" =>
              LET e == evals[Len(evals)]
              IN  e.kind = "final" /\ e.weights = policy /\ e.version = updates

C2_Move ==
    (Training /\ SameRun) =>
        /\ (pc = "loop" /\ step >= args.steps) => pc' = "final_save"
        /\ pc = "final_save" => (pc' = "final_eval" \/ (pc' = "aborted" /\ failed' = "final_save"))
        /\ pc' = "done" => pc = "final_eval"

\* C2: at the end of the loop the final save, then the final evaluation, of the last policy.
C2_FinalSaveThenFinalEval == []C2_State /\ [][C2_Move]_vars

C2_Witness ==
    /\ Training /\ pc = "done"
    /\ args.steps = save_every
    /\ Len(saved) = 2 /\ Len(evals) = 2

(***************************************************************************)
(* C3 as stated: a file once written is never overwritten or deleted by    *)
(* any later operation, a later run on the same output location included.  *)
(***************************************************************************)
CheckpointDirs == DOMAIN storage \ {OutputDir}

WrittenThisRun == { saved[i].path : i \in 1 .. Len(saved) }

C4_CheckpointFailureDoesNotAbort == failed = "checkpoint" => pc # "aborted"

(***************************************************************************)
(* C5: a failure in generation or in the gradient computation of step s    *)
(* ends the run: the update of step s is not applied, no checkpoint, final *)
(* save or evaluation of step s or later exists, and nothing of the run    *)
(* changes afterwards.                                                     *)
(***************************************************************************)
C5_State ==
    StepFailed =>
        /\ pc = "aborted"
        /\ step >= 1
        /\ updates = step - 1
        /\ \A i \in 1 .. Len(saved) : saved[i].step < step /\ saved[i].kind = "periodic"
        /\ \A i \in 1 .. Len(evals) : evals[i].step < step /\ evals[i].kind = "periodic"

C5_Move ==
    (StepFailed /\ SameRun) =>
        UNCHANGED <<pc, step, updates, policy, ref, failed, saved, evals, storage, dirs>>

\* C5: a generation or gradient failure ends the run before the step's update.
C5_StepFailureIsFatal == []C5_State /\ [][C5_Move]_vars

C5_Witness ==
    /\ failed = "gradient" /\ pc = "aborted"
    /\ step = 2 * save_every
    /\ updates = step - 1
    /\ Len(saved) = 1

(***************************************************************************)
(* C6: an eval-only run loads the policy, evaluates it once and ends: no   *)
(* step, no update, no reference model, nothing saved, the disk untouched. *)
(***************************************************************************)
C6_State ==
    args.eval_only =>
        /\ pc \in {"load", "eval_only", "done", "aborted"}
        /\ step = 0 /\ updates = 0
        /\ ref = Unloaded
        /\ saved = <<>>
        /\ Len(evals) = (IF pc = "done" THEN 1 ELSE 0)
        /\ \A i \in 1 .. Len(evals) : evals[i].kind = "eval_only" /\ evals[i].version = 0
        /\ StepLocalsCleared

C6_Move == (args.eval_only /\ SameRun) => UNCHANGED <<storage, dirs>>

\* C6: eval-only evaluates once and trains, loads and writes nothing else.
C6_EvalOnly == []C6_State /\ [][C6_Move]_vars

C6_Witness ==
    /\ args.eval_only /\ pc = "done"
    /\ Len(evals) = 1
    /\ run = 2 /\ storage # NoFiles

(***************************************************************************)
(* C7: once loaded, the reference weights never change during the run:     *)
(* they are those of the SFT adapter in every state.                       *)
(***************************************************************************)
C7_State == ref # Unloaded => ref = AdapterWeights(sft_adapter)

C7_Move == (ref # Unloaded /\ SameRun) => ref' = ref

\* C7: the reference weights are the SFT adapter's and never change.
C7_ReferenceFrozen == []C7_State /\ [][C7_Move]_vars

C7_Witness ==
    /\ ref # Unloaded
    /\ updates >= 1
    /\ policy # ref
    /\ saved # <<>> /\ evals # <<>>

(***************************************************************************)
(* C8 as stated: in every training run, before the first optimizer update  *)
(* the reference weights equal the policy weights, every reference         *)
(* log-prob equals the policy's log-prob of the same completion, and every *)
(* kl of step 1 is 0.                                                      *)
(***************************************************************************)
NoDriftYet ==
    /\ ref = policy
    /\ \A i \in 1 .. Len(ref_log_probs) :
          ref_log_probs[i] = compute_log_prob(policy, query, completions[i])
    /\ \A i \in 1 .. Len(terms) : terms[i].kl = 0

\* C8 as stated: before the first update reference and policy agree, in every training run.
C8_NoDriftBeforeFirstUpdate ==
    (Training /\ ref # Unloaded /\ updates = 0) => NoDriftYet

(***************************************************************************)
(* C8 amended: in every training run whose policy is loaded from weights   *)
(* equal to the SFT adapter's (no --adapter, or an --adapter holding the   *)
(* same weights), before the first optimizer update the reference equals   *)
(* the policy, the log-probs agree and every kl of step 1 is 0.            *)
(***************************************************************************)
C8_NoDriftFromSftAdapter ==
    (/\ Training /\ ref # Unloaded /\ updates = 0
     /\ AdapterWeights(PolicyAdapter) = AdapterWeights(sft_adapter)) => NoDriftYet

C8_Witness ==
    /\ Training /\ updates = 0 /\ pc = "update"
    /\ args.adapter = NoAdapter
    /\ Len(terms) = num_generations
    /\ \E i \in 1 .. Len(terms) : terms[i].comp # <<>> /\ terms[i].policy_lp < 0

(***************************************************************************)
(* C9: in every step, once built, completions, rewards, advantages and     *)
(* ref_log_probs have num_generations entries, entry i of each comes from  *)
(* completion i, and the loss combines for completion i exactly the        *)
(* advantage and reference log-prob of completion i.                       *)
(***************************************************************************)
C9_GroupListsAligned ==
    /\ pc \in {"score", "ref_lp", "loss", "update"} => Len(completions) = num_generations
    /\ pc \in {"ref_lp", "loss", "update"} =>
          Len(rewards) = num_generations /\ Len(advantages) = num_generations
    /\ pc \in {"loss", "update"} => Len(ref_log_probs) = num_generations
    /\ pc = "update" => Len(terms) = num_generations
    /\ Len(rewards) <= Len(completions)
    /\ Len(ref_log_probs) <= Len(completions)
    /\ Len(terms) <= Len(completions)
    /\ \A i \in 1 .. Len(rewards) : rewards[i] = compute_reward(query, completions[i])
    /\ \A i \in 1 .. Len(advantages) : advantages[i] = Advantage(rewards, i)
    /\ \A i \in 1 .. Len(ref_log_probs) :
          ref_log_probs[i] = compute_log_prob(ref, query, completions[i])
    /\ \A i \in 1 .. Len(terms) :
          /\ terms[i].comp = completions[i]
          /\ terms[i].adv = Advantage(rewards, i)
          /\ terms[i].ref_lp = compute_log_prob(ref, query, completions[i])
          /\ terms[i].policy_lp = compute_log_prob(policy, query, completions[i])
          /\ terms[i].kl = terms[i].policy_lp - terms[i].ref_lp

C9_Witness ==
    /\ pc = "update"
    /\ Len(terms) = num_generations
    /\ Cardinality({ completions[i] : i \in 1 .. Len(completions) }) >= 3
    /\ Cardinality({ ref_log_probs[i] : i \in 1 .. Len(ref_log_probs) }) >= 3
    /\ Cardinality({ advantages[i] : i \in 1 .. Len(advantages) }) >= 3

(***************************************************************************)
(* C10: within a step every generation and the loss read the same policy   *)
(* (same weights, same number of updates applied), and the step's one      *)
(* update is applied only after all num_generations generations, all       *)
(* reference log-probs and the loss.                                       *)
(***************************************************************************)
C10_State ==
    /\ InStep =>
          /\ updates = step - 1
          /\ \A i \in 1 .. Len(seen) : seen[i] = PolicyRead
    /\ pc \in {"generate", "score", "ref_lp", "loss"} => Len(seen) = Len(completions)
    /\ pc = "update" => Len(seen) = Len(completions) + 1

C10_Move ==
    (SameRun /\ (updates' # updates \/ policy' # policy) /\ pc # "load") =>
        /\ pc = "update"
        /\ updates' = updates + 1
        /\ Len(completions) = num_generations
        /\ Len(ref_log_probs) = num_generations
        /\ Len(terms) = num_generations
        /\ Len(seen) = num_generations + 1

\* C10: one policy snapshot per group, the update after everything else of the step.
C10_OneSnapshotPerGroup == []C10_State /\ [][C10_Move]_vars

C10_Witness ==
    /\ pc = "update"
    /\ step = 2
    /\ policy # AdapterWeights(PolicyAdapter)
    /\ Len(seen) = num_generations + 1
    /\ \A i \in 1 .. Len(seen) : seen[i].version = 1

(***************************************************************************)
(* C11: a checkpoint write or an evaluation pass happens only between      *)
(* steps (never between the start of a grpo_step and its update), it reads *)
(* the policy as the update of the step that triggered it left it, and it  *)
(* leaves the policy unchanged.                                            *)
(***************************************************************************)
BetweenSteps == pc \in {"eval_only", "save", "eval", "final_save", "final_eval"}

C11_State ==
    /\ \A i \in 1 .. Len(saved) :
          /\ saved[i].version = saved[i].step
          /\ saved[i].kind = "periodic" => IsSaveStep(saved[i].step)
    /\ \A i \in 1 .. Len(evals) :
          /\ evals[i].version = evals[i].step
          /\ evals[i].kind = "periodic" => IsEvalStep(evals[i].step)
    /\ BetweenSteps => (updates = step /\ StepLocalsCleared)

C11_Move ==
    (SameRun /\ (saved' # saved \/ evals' # evals \/ storage' # storage)) =>
        /\ BetweenSteps
        /\ policy' = policy /\ updates' = updates /\ step' = step
        /\ saved' # saved =>
              /\ saved' = Append(saved, saved'[Len(saved')])
              /\ saved'[Len(saved')].weights = policy
              /\ saved'[Len(saved')].version = step
              /\ storage'[saved'[Len(saved')].path] = policy
        /\ evals' # evals =>
              /\ evals' = Append(evals, evals'[Len(evals')])
              /\ evals'[Len(evals')].weights = policy
              /\ evals'[Len(evals')].version = step

\* C11: checkpoints and evaluations only between steps, of the triggering step's policy, which they leave alone.
C11_SavesAndEvalsBetweenSteps == []C11_State /\ [][C11_Move]_vars

C11_Witness ==
    /\ pc = "loop" /\ step = save_every /\ args.steps > step
    /\ Len(saved) = 1 /\ Len(evals) = 1
    /\ policy # ref
    /\ saved[1].weights = policy /\ evals[1].weights = policy

(***************************************************************************)
(* eval.py: score_expansion(text), called on its own.  A text is a         *)
(* sequence of characters; arg holds the lines it was written from, the    *)
(* text itself is these lines joined by newlines.                          *)
(***************************************************************************)
MaxLines == 2
MaxRepeat == 3

\* Characters str.strip() removes by default (those that occur in the texts).
WhiteSpace == {" ", "\t", "\n", "\r"}

lex_prefix  == <<"l", "e", "x", ":">>
vec_prefix  == <<"v", "e", "c", ":">>
hyde_prefix == <<"h", "y", "d", "e", ":">>

RECURSIVE LStrip(_)
LStrip(s) == IF s # <<>> /\ s[1] \in WhiteSpace THEN LStrip(Tail(s)) ELSE s

RECURSIVE RStrip(_)
RStrip(s) ==
    IF s # <<>> /\ s[Len(s)] \in WhiteSpace
    THEN RStrip(SubSeq(s, 1, Len(s) - 1))
    ELSE s

Strip_Nothing(s) == s

\* str.strip()
Strip(s) == RStrip(LStrip(s))

\* str.split("\n"): the pieces between newlines, one piece for the empty text.
RECURSIVE Split(_)
Split(s) ==
    IF \A i \in 1 .. Len(s) : s[i] # "\n"
    THEN << s >>
    ELSE LET i == CHOOSE k \in 1 .. Len(s) :
                     s[k] = "\n" /\ \A j \in 1 .. k - 1 : s[j] # "\n"
         IN  << SubSeq(s, 1, i - 1) >> \o Split(SubSeq(s, i + 1, Len(s)))

StartsWith_Anywhere(s, p) ==
    \E k \in 0 .. Len(s) - Len(p) : SubSeq(s, k + 1, k + Len(p)) = p

StartsWith_IgnoreCase(s, p) ==
    LET lower(c) == CASE c = "L" -> "l" [] c = "E" -> "e" [] c = "X" -> "x"
                      [] c = "V" -> "v" [] c = "C" -> "c" [] c = "H" -> "h"
                      [] c = "Y" -> "y" [] c = "D" -> "d" [] OTHER -> c
    IN  /\ Len(s) >= Len(p)
        /\ \A k \in 1 .. Len(p) : lower(s[k]) = p[k]

\* str.startswith(p)
StartsWith(s, p) == Len(s) >= Len(p) /\ SubSeq(s, 1, Len(p)) = p

\* The scores dict as created.
NoScores ==
    [ has_lex |-> 0, has_vec |-> 0, has_hyde |-> 0, lex_count |-> 0,
      vec_count |-> 0, format_valid |-> 0, total |-> 0 ]

\* One iteration of "for line in lines".
ScoreLine(scores, raw) ==
    LET line == Strip(raw)
    IN  IF StartsWith(line, lex_prefix)
        THEN [ scores EXCEPT !.has_lex = 1, !.lex_count = @ + 1 ]
        ELSE IF StartsWith(line, vec_prefix)
        THEN [ scores EXCEPT !.has_vec = 1, !.vec_count = @ + 1 ]
        ELSE IF StartsWith(line, hyde_prefix)
        THEN [ scores EXCEPT !.has_hyde = 1 ]
        ELSE scores

RECURSIVE ScoreLines(_, _)
ScoreLines(scores, lines) ==
    IF lines = <<>>
    THEN scores
    ELSE ScoreLines(ScoreLine(scores, Head(lines)), Tail(lines))

FormatValid_AnyOne(scores) ==
    IF scores.has_lex = 1 \/ scores.has_vec = 1 \/ scores.has_hyde = 1 THEN 1 ELSE 0

FormatValid(scores) ==
    IF scores.has_lex = 1 /\ scores.has_vec = 1 /\ scores.has_hyde = 1 THEN 1 ELSE 0

Total_Uncapped(scores) ==
    scores.format_valid * 40 + scores.lex_count * 10
       + scores.vec_count * 10 + scores.has_hyde * 20

Total_NoFormatPart(scores) ==
    Min(scores.lex_count, 3) * 10 + Min(scores.vec_count, 3) * 10
       + scores.has_hyde * 20

Total(scores) ==
    scores.format_valid * 40 + Min(scores.lex_count, 3) * 10
       + Min(scores.vec_count, 3) * 10 + scores.has_hyde * 20

score_expansion(text) ==
    LET lines   == Split(Strip(text))
        counted == ScoreLines(NoScores, lines)
        valid   == [ counted EXCEPT !.format_valid = FormatValid(counted) ]
    IN  [ valid EXCEPT !.total = Total(valid) ]

(***************************************************************************)
(* Input texts: up to MaxLines lines of any shape, then up to MaxRepeat    *)
(* plain lex: lines and up to MaxRepeat plain vec: lines.                  *)
(***************************************************************************)
\* A line with prefix p: plain, indented with trailing blanks, nothing after p.
Shapes(p) ==
    { p \o <<" ", "a">>, <<" ", "\t">> \o p \o <<" ", "a", " ">>, p }

LexLines  == Shapes(lex_prefix)
VecLines  == Shapes(vec_prefix)
HydeLines == Shapes(hyde_prefix)

\* The same lines with the prefix in another letter case.
CaseLines ==
    Shapes(<<"L", "E", "X", ":">>) \cup Shapes(<<"V", "e", "c", ":">>)
       \cup Shapes(<<"H", "Y", "D", "E", ":">>)

\* No prefix at the start: prose that mentions one, blank lines.
PlainLines == { <<"a", " ">> \o lex_prefix, <<>>, <<" ">> }

Lines == LexLines \cup VecLines \cup HydeLines \cup CaseLines \cup PlainLines

RECURSIVE Repeat(_, _)
Repeat(line, n) == IF n = 0 THEN <<>> ELSE << line >> \o Repeat(line, n - 1)

TextInputs ==
    { free \o Repeat(lex_prefix \o <<" ", "a">>, i) \o Repeat(vec_prefix \o <<" ", "a">>, j) :
        free \in UNION { [ 1 .. n -> Lines ] : n \in 0 .. MaxLines },
        i \in 0 .. MaxRepeat, j \in 0 .. MaxRepeat }

\* "\n".join(lines)
RECURSIVE JoinLines(_)
JoinLines(lines) ==
    IF lines = <<>> THEN <<>>
    ELSE IF Len(lines) = 1 THEN lines[1]
    ELSE lines[1] \o <<"\n">> \o JoinLines(Tail(lines))

\* Only the function under test runs: main() and its files stay untouched.
MainIdle ==
    /\ run = 0
    /\ args = <<>>
    /\ step = 0
    /\ policy = Unloaded
    /\ ref = Unloaded
    /\ updates = 0
    /\ failed = "none"
    /\ storage = NoFiles
    /\ dirs = {}
    /\ saved = <<>>
    /\ evals = <<>>
    /\ StepLocalsCleared

InitScore ==
    /\ MainIdle
    /\ pc = "call"
    /\ arg \in TextInputs
    /\ result = <<>>

ScoreCall ==
    /\ pc = "call"
    /\ result' = score_expansion(JoinLines(arg))
    /\ pc' = "returned"
    /\ UNCHANGED << arg, mainVarsButPc, diskVars, logVars, stepVars >>

NextScore == ScoreCall

SpecScore == InitScore /\ [][NextScore]_vars

\* Number of lines of the text that belong to a set of lines.
Count(lines, S) == Cardinality({ i \in 1 .. Len(lines) : lines[i] \in S })

Scored == pc = "returned" /\ arg \in TextInputs

(***************************************************************************)
(* C12: format_valid is 1 exactly when the text has a lex: line, a vec:    *)
(* line and a hyde: line, and 0 otherwise.                                 *)
(***************************************************************************)
\* C12: format_valid = 1 iff at least one line of each of the three prefixes.
C12_FormatValidIffAllThree ==
    Scored =>
        /\ result.format_valid \in {0, 1}
        /\ result.format_valid = 1 <=>
              /\ Count(arg, LexLines) >= 1
              /\ Count(arg, VecLines) >= 1
              /\ Count(arg, HydeLines) >= 1

C12_Witness ==
    /\ Scored
    /\ result.format_valid = 0
    /\ Count(arg, LexLines) >= 1
    /\ Count(arg, HydeLines) >= 1
    /\ Count(arg, VecLines) = 0

(***************************************************************************)
(* C13: total = format_valid*40 + min(lex_count,3)*10 + min(vec_count,3)*10 *)
(* + has_hyde*20 with lex_count and vec_count the exact numbers of lex: and *)
(* vec: lines, and total lies in 0 .. 100.                                  *)
(***************************************************************************)
\* C13: total follows the formula over exact counts and lies in 0 .. 100.
C13_TotalByFormulaWithin100 ==
    Scored =>
        /\ result.lex_count = Count(arg, LexLines)
        /\ result.vec_count = Count(arg, VecLines)
        /\ result.total = result.format_valid * 40
                          + Min(Count(arg, LexLines), 3) * 10
                          + Min(Count(arg, VecLines), 3) * 10
                          + result.has_hyde * 20
        /\ result.total \in 0 .. 100

(***************************************************************************)
(* C14: the call returns a score record for every text, and a text with no *)
(* line starting with lex:, vec: or hyde: (the empty text included) gets   *)
(* format_valid = 0 and total = 0.                                         *)
(***************************************************************************)
ScoreRecords ==
    [ has_lex : {0, 1}, has_vec : {0, 1}, has_hyde : {0, 1}, lex_count : Nat,
      vec_count : Nat, format_valid : {0, 1}, total : Nat ]

NothingRecognised ==
    Count(arg, LexLines \cup VecLines \cup HydeLines) = 0

\* C14: every call returns a record; texts without a recognised line score 0.
C14_NeverFailsLowestScore ==
    /\ [][pc = "call" => (pc' = "returned" /\ result' \in ScoreRecords)]_vars
    /\ [](Scored =>
            /\ result \in ScoreRecords
            /\ NothingRecognised => (result.format_valid = 0 /\ result.total = 0))

C14_Witness ==
    /\ Scored
    /\ NothingRecognised
    /\ Len(arg) = 2
    /\ arg[1] = <<"a", " ">> \o lex_prefix
    /\ arg[2] \in CaseLines
    /\ result.total = 0

(***************************************************************************)
(* C15: a text with at least one line of each prefix has format_valid = 1  *)
(* and total >= 80.                                                        *)
(***************************************************************************)
AllThreePresent ==
    /\ Count(arg, LexLines) >= 1
    /\ Count(arg, VecLines) >= 1
    /\ Count(arg, HydeLines) >= 1

\* C15: one line of each prefix gives format_valid = 1 and total >= 80.
C15_CompleteScoresAtLeast80 ==
    (Scored /\ AllThreePresent) =>
        (result.format_valid = 1 /\ result.total >= 80)

C15_Witness ==
    /\ Scored
    /\ Count(arg, LexLines) = 1
    /\ Count(arg, VecLines) = 1
    /\ Count(arg, HydeLines) = 1
    /\ result.format_valid = 1
    /\ result.total = 80

(***************************************************************************)
(* C16: a line whose prefix differs from lex:, vec:, hyde: in letter case  *)
(* sets no flag and raises no count; a text of such lines only scores 0.   *)
(***************************************************************************)
OnlyCaseLines == arg # <<>> /\ Count(arg, CaseLines) = Len(arg)

\* C16: case variants of the prefixes never match.
C16_CaseSensitive ==
    Scored =>
        /\ result.has_lex = 1 => Count(arg, LexLines) >= 1
        /\ result.has_vec = 1 => Count(arg, VecLines) >= 1
        /\ result.has_hyde = 1 => Count(arg, HydeLines) >= 1
        /\ result.lex_count <= Count(arg, LexLines)
        /\ result.vec_count <= Count(arg, VecLines)
        /\ OnlyCaseLines => result = NoScores

C16_Witness ==
    /\ Scored
    /\ OnlyCaseLines
    /\ Len(arg) = 2
    /\ arg[1] = <<"L", "E", "X", ":", " ", "a">>
    /\ arg[2] = <<"V", "e", "c", ":">>
    /\ result.total = 0

(***************************************************************************)
(* C17: a line is classified by its prefix after its leading and trailing  *)
(* whitespace is trimmed: indented lines and lines with nothing after the  *)
(* prefix count like plain ones.                                           *)
(***************************************************************************)
Indented(p) == <<" ", "\t">> \o p \o <<" ", "a", " ">>

\* C17: indented lines and bare prefixes are counted like plain lines.
C17_TrimmedThenByPrefix ==
    Scored =>
        /\ result.lex_count = Cardinality({ i \in 1 .. Len(arg) : arg[i] \in LexLines })
        /\ result.vec_count = Cardinality({ i \in 1 .. Len(arg) : arg[i] \in VecLines })
        /\ result.has_lex = 1 <=> (\E i \in 1 .. Len(arg) : arg[i] \in LexLines)
        /\ result.has_vec = 1 <=> (\E i \in 1 .. Len(arg) : arg[i] \in VecLines)
        /\ result.has_hyde = 1 <=> (\E i \in 1 .. Len(arg) : arg[i] \in HydeLines)

C17_Witness ==
    /\ Scored
    /\ Len(arg) = 3
    /\ arg[1] = hyde_prefix
    /\ arg[2] = Indented(lex_prefix)
    /\ arg[3] = vec_prefix \o <<" ", "a">>
    /\ result.has_hyde = 1
    /\ result.lex_count = 1
    /\ result.format_valid = 1

(***************************************************************************)
(* grpo_step lines 102-115 on their own: the temperatures of a group of n  *)
(* completions and the advantages of its n rewards.  arg holds the rewards *)
(* (compute_reward's totals, in units of 1/140), n is their number.        *)
(***************************************************************************)
MaxGroup == 4
MaxReward == 4

temp_min == 1
temp_max == 2

Max(a, b) == IF a > b THEN a ELSE b

Denominator_Unguarded(n) == n - 1

\* max(1, config["num_generations"] - 1)
Denominator(n) == Max(1, n - 1)

\* temp = 1.0 + 1.0 * i / max(1, n - 1), as the fraction num / den.
Temperature(i, n) ==
    [ num |-> temp_min * Denominator(n) + (temp_max - temp_min) * i,
      den |-> Denominator(n) ]

\* The temp of each generate_completion call, i = 0 .. n - 1.
Temperatures(n) == [ k \in 1 .. n |-> Temperature(k - 1, n) ]

VarFloor_None(n) == 0

\* The 1e-8 under the root, in the unit of StdSquared:
\* 1e-8 * n * (140 * n)^2 * 10^6.
VarFloor(n) == 196 * n * n * n

\* std_reward^2 = sum((r - mean_reward)**2) / n + 1e-8, in units of
\* 1 / (n * (140 * n)^2 * 10^6).
StdSquared(rs) == SumSqDev(rs) * 1000000 + VarFloor(Len(rs))

\* (r - mean_reward) / std_reward: the numerator in units of 1 / (140 * n),
\* the square of the divisor as StdSquared.
GroupAdvantage(rs, i) == [ num |-> Deviation(rs, i), stdsq |-> StdSquared(rs) ]

RewardInputs == UNION { [ 1 .. n -> 0 .. MaxReward ] : n \in 1 .. MaxGroup }

InitGroup ==
    /\ MainIdle
    /\ pc = "call"
    /\ arg \in RewardInputs
    /\ result = <<>>

\* Lines 102-107: one temperature per completion.
GroupSample ==
    /\ pc = "call"
    /\ IF \E k \in 1 .. Len(arg) : Temperature(k - 1, Len(arg)).den = 0
       THEN /\ Raise("ZeroDivisionError")
            /\ UNCHANGED result
       ELSE /\ result' = [ temps |-> Temperatures(Len(arg)), advantages |-> <<>> ]
            /\ pc' = "sampled"
            /\ UNCHANGED failed
    /\ UNCHANGED << arg, run, args, step, policy, ref, updates >>
    /\ UNCHANGED << diskVars, logVars, stepVars >>

\* Lines 109-115: mean, std and the advantages.
GroupAdvantages ==
    /\ pc = "sampled"
    /\ IF StdSquared(arg) = 0
       THEN /\ Raise("ZeroDivisionError")
            /\ UNCHANGED result
       ELSE /\ result' = [ result EXCEPT !.advantages =
                             [ i \in 1 .. Len(arg) |-> GroupAdvantage(arg, i) ] ]
            /\ pc' = "returned"
            /\ UNCHANGED failed
    /\ UNCHANGED << arg, run, args, step, policy, ref, updates >>
    /\ UNCHANGED << diskVars, logVars, stepVars >>

NextGroup == GroupSample \/ GroupAdvantages

SpecGroup == InitGroup /\ [][NextGroup]_vars

AllEqual(rs) == \A i \in 1 .. Len(rs) : rs[i] = rs[1]

GroupDone == pc \in {"returned", "aborted"} /\ arg \in RewardInputs

(***************************************************************************)
(* C18: a group of N >= 2 equal rewards gets advantage 0 for every         *)
(* completion, and the division by std_reward does not fail.               *)
(***************************************************************************)
\* C18: equal rewards give all-zero advantages and no division error.
C18_EqualRewardsZeroAdvantage ==
    (GroupDone /\ Len(arg) >= 2 /\ AllEqual(arg)) =>
        /\ pc = "returned"
        /\ failed = "none"
        /\ Len(result.advantages) = Len(arg)
        /\ \A i \in 1 .. Len(arg) :
              /\ result.advantages[i].stdsq > 0
              /\ result.advantages[i].num = 0

C18_Witness ==
    /\ pc = "returned"
    /\ arg = << 3, 3, 3, 3 >>
    /\ \A i \in 1 .. 4 : result.advantages[i].num = 0

(***************************************************************************)
(* C19: with nonzero variance the advantages sum to zero and their mean    *)
(* square (the square of their standard deviation) lies within one percent *)
(* of 1.                                                                   *)
(***************************************************************************)
\* Sum over the group of advantage^2, times stdsq / (n * 10^6).
SumSqNum(advs) == SumSeq([ i \in 1 .. Len(advs) |-> advs[i].num * advs[i].num ])

\* C19: nonzero variance gives advantages of mean 0 and standard deviation about 1.
C19_MeanZeroUnitStd ==
    (GroupDone /\ ~AllEqual(arg)) =>
        /\ pc = "returned"
        /\ Len(result.advantages) = Len(arg)
        /\ SumSeq([ i \in 1 .. Len(arg) |-> result.advantages[i].num ]) = 0
        /\ \A i \in 1 .. Len(arg) :
              /\ result.advantages[i].stdsq > 0
              /\ result.advantages[i].stdsq = result.advantages[1].stdsq
        \* mean square = SumSqNum * 10^6 / stdsq: at most 1, at least 0.99
        /\ SumSqNum(result.advantages) * 1000000 <= result.advantages[1].stdsq
        /\ (result.advantages[1].stdsq - SumSqNum(result.advantages) * 1000000) * 99
              <= SumSqNum(result.advantages) * 1000000

C19_Witness ==
    /\ pc = "returned"
    /\ arg = << 0, 1, 0, 0 >>
    /\ result.advantages[2].num = 3
    /\ result.advantages[1].num = 0 - 1
    /\ SumSqNum(result.advantages) * 1000000 < result.advantages[1].stdsq

(***************************************************************************)
(* C20: completion i of n is sampled at                                    *)
(* temp_min + (temp_max - temp_min) * i / max(1, n - 1): the first at      *)
(* temp_min, the last at temp_max when n >= 2, strictly increasing, all    *)
(* within the range, and n = 1 gives temp_min with no division by zero.    *)
(***************************************************************************)
Sampled == pc \in {"sampled", "returned", "aborted"} /\ arg \in RewardInputs

\* C20: the temperature schedule is the linear interpolation over the range.
C20_TemperatureSchedule ==
    Sampled =>
        /\ failed = "none"
        /\ Len(result.temps) = Len(arg)
        /\ LET n == Len(arg)
               T == result.temps
           IN  /\ \A k \in 1 .. n :
                     /\ T[k].den > 0
                     /\ T[k].den = Max(1, n - 1)
                     /\ T[k].num = temp_min * T[k].den + (temp_max - temp_min) * (k - 1)
                     /\ temp_min * T[k].den <= T[k].num
                     /\ T[k].num <= temp_max * T[k].den
               /\ T[1].num = temp_min * T[1].den
               /\ n >= 2 => T[n].num = temp_max * T[n].den
               /\ \A k \in 1 .. n - 1 : T[k].num * T[k + 1].den < T[k + 1].num * T[k].den
               /\ n = 1 => T = << [ num |-> temp_min, den |-> 1 ] >>

C20_Witness ==
    /\ pc = "sampled"
    /\ Len(arg) = 4
    /\ result.temps = << [ num |-> 3, den |-> 3 ], [ num |-> 4, den |-> 3 ],
                         [ num |-> 5, den |-> 3 ], [ num |-> 6, den |-> 3 ] >>

(***************************************************************************)
(* grpo_step.loss_fn on its own.  arg holds, per completion, the advantage *)
(* and the two log-probabilities the loop body works with; result is the   *)
(* pair (loss, kl) it returns, each as the fraction num / den.             *)
(***************************************************************************)
MaxTerms == 2
MaxAdv == 1
MaxLp == 1

\* config["beta"] = 0.04, in hundredths.
beta_hundredths == 4

Abs(x) == IF x < 0 THEN 0 - x ELSE x

\* kl = policy_lp - ref_lp
KlOf(t) == t.policy_lp - t.ref_lp

\* pg_loss + config["beta"] * mx.abs(kl), in hundredths.
TermOf(t) == 100 * ((0 - t.adv) * t.policy_lp) + beta_hundredths * Abs(KlOf(t))

KlAdded_Absolute(t) == Abs(KlOf(t))

\* What one iteration adds to total_kl.
KlAdded(t) == KlOf(t)

\* The for loop: total_loss and total_kl after the triples ts.
RECURSIVE Accumulate(_, _)
Accumulate(ts, acc) ==
    IF ts = <<>>
    THEN acc
    ELSE Accumulate(Tail(ts),
                    [ total_loss |-> acc.total_loss + TermOf(Head(ts)),
                      total_kl   |-> acc.total_kl + KlAdded(Head(ts)) ])

\* total / n, for a total in units of 1 / unit.
MeanOver(total, n, unit) == [ num |-> total, den |-> unit * n ]

\* return total_loss / n, total_kl / n   with n = len(completions)
loss_fn(ts) ==
    LET acc == Accumulate(ts, [ total_loss |-> 0, total_kl |-> 0 ])
    IN  [ loss |-> MeanOver(acc.total_loss, Len(ts), 100),
          kl   |-> MeanOver(acc.total_kl, Len(ts), 1) ]

Triples == [ adv : (0 - MaxAdv) .. MaxAdv, policy_lp : (0 - MaxLp) .. 0, ref_lp : (0 - MaxLp) .. 0 ]

LossInputs == UNION { [ 1 .. n -> Triples ] : n \in 1 .. MaxTerms }

InitLoss ==
    /\ MainIdle
    /\ pc = "call"
    /\ arg \in LossInputs
    /\ result = <<>>

LossCall ==
    /\ pc = "call"
    /\ result' = loss_fn(arg)
    /\ pc' = "returned"
    /\ UNCHANGED << arg, mainVarsButPc, diskVars, logVars, stepVars >>

NextLoss == LossCall

SpecLoss == InitLoss /\ [][NextLoss]_vars

(***************************************************************************)
(* C21: the loss is the mean over the group of                             *)
(* -a_c * policy_lp_c + beta * |policy_lp_c - ref_lp_c| and the reported   *)
(* kl is the mean of the signed differences policy_lp_c - ref_lp_c.        *)
(***************************************************************************)
LossReturned == pc = "returned" /\ arg \in LossInputs

\* C21: loss = mean of term_c, kl = mean of the signed kl_c.
C21_LossAndKlAreGroupMeans ==
    LossReturned =>
        LET n == Len(arg)
        IN  /\ result.loss.den = 100 * n
            /\ result.loss.num =
                  SumSeq([ c \in 1 .. n |->
                             0 - 100 * arg[c].adv * arg[c].policy_lp
                             + beta_hundredths
                                 * (IF arg[c].policy_lp >= arg[c].ref_lp
                                    THEN arg[c].policy_lp - arg[c].ref_lp
                                    ELSE arg[c].ref_lp - arg[c].policy_lp) ])
            /\ result.kl.den = n
            /\ result.kl.num =
                  SumSeq([ c \in 1 .. n |-> arg[c].policy_lp - arg[c].ref_lp ])

C21_Witness ==
    /\ LossReturned
    /\ Len(arg) = 2
    /\ arg[1].policy_lp < arg[1].ref_lp
    /\ arg[2].policy_lp > arg[2].ref_lp
    /\ arg[1].adv > 0
    /\ result.kl.num = 0
    /\ result.loss.num = 100 + 2 * beta_hundredths

(***************************************************************************)
(* main() with evaluate() read in full: arg is the content of the query    *)
(* file (its lines, each ending with a newline), result is what the last   *)
(* evaluate call worked out.  The file exists and generation succeeds.     *)
(***************************************************************************)
MaxFileLines == 2

\* score_expansion_detailed(q, resp)['total']: the totals told apart here,
\* the largest being the 140 compute_reward divides by.
MaxDetailedTotal == 140
DetailedTotals == {0, 100, MaxDetailedTotal}

IsQueryLine_KeepsComments(line) == line # <<>>

IsQueryLine_KeepsBlank(line) == ~StartsWith(line, <<"#">>)

\* if line and not line.startswith('#')
IsQueryLine(line) == line # <<>> /\ ~StartsWith(line, <<"#">>)

\* for line in f: line = line.strip(); if ...: queries.append(line)
RECURSIVE ReadQueries(_)
ReadQueries(file) ==
    IF file = <<>>
    THEN <<>>
    ELSE LET line == Strip(Head(file))
         IN  (IF IsQueryLine(line) THEN << line >> ELSE <<>>) \o ReadQueries(Tail(file))

\* min(scores), max(scores)
SeqMin(s) == CHOOSE m \in { s[i] : i \in 1 .. Len(s) } : \A i \in 1 .. Len(s) : m <= s[i]
SeqMax(s) == CHOOSE m \in { s[i] : i \in 1 .. Len(s) } : \A i \in 1 .. Len(s) : m >= s[i]

\* The dict evaluate returns; avg as the fraction num / den.
Summary(scores) ==
    [ avg     |-> [ num |-> SumSeq(scores), den |-> Len(scores) ],
      perfect |-> Cardinality({ i \in 1 .. Len(scores) : scores[i] >= 100 }),
      total   |-> Len(scores),
      min     |-> SeqMin(scores),
      max     |-> SeqMax(scores) ]

\* evaluate(policy_model, tokenizer) and what main does with it: sum(scores) /
\* len(scores) raises ZeroDivisionError for an empty list, which leaves main.
Evaluate(kind, next) ==
    LET queries == ReadQueries(arg)
    IN  \E scores \in [ 1 .. Len(queries) -> DetailedTotals ] :
           IF Len(scores) = 0
           THEN /\ Raise("evaluation")
                /\ UNCHANGED << evals, result >>
           ELSE /\ result' = [ queries |-> queries, scores |-> scores,
                               summary |-> Summary(scores) ]
                /\ evals' = Append(evals, EvalRecord(kind))
                /\ pc' = next
                /\ UNCHANGED failed

\* Lines of a query file: a query, a query with '#' inside, a comment, a
\* blank line; each as written and with blanks around it.
nl == << "\n" >>
Cores == { << "q" >>, << "r", " ", "#", "s" >>, << "#", "c" >>, <<>> }
Padded(core) == { core \o nl, << " ", "\t" >> \o core \o << " " >> \o nl }
FileLines == UNION { Padded(core) : core \in Cores }
QueryFiles == UNION { [ 1 .. n -> FileLines ] : n \in 0 .. MaxFileLines }

InitEval ==
    /\ run = 1
    /\ storage = NoFiles
    /\ dirs = {}
    /\ arg \in QueryFiles
    /\ result = <<>>
    /\ ProcessStarts({0, eval_every})
    /\ args.adapter = NoAdapter

EvalOnlyFile ==
    /\ pc = "eval_only"
    /\ Evaluate("eval_only", "done")
    /\ UNCHANGED << arg, run, args, step, policy, ref, updates, saved >>
    /\ UNCHANGED << diskVars, stepVars >>

PeriodicEvalFile ==
    /\ pc = "eval"
    /\ IF IsEvalStep(step)
       THEN Evaluate("periodic", "loop")
       ELSE /\ pc' = "loop"
            /\ UNCHANGED << failed, evals, result >>
    /\ UNCHANGED << arg, run, args, step, policy, ref, updates, saved >>
    /\ UNCHANGED << diskVars, stepVars >>

FinalEvalFile ==
    /\ pc = "final_eval"
    /\ Evaluate("final", "done")
    /\ UNCHANGED << arg, run, args, step, policy, ref, updates, saved >>
    /\ UNCHANGED << diskVars, stepVars >>

NextEval ==
    \/ LoadPolicy
    \/ EvalOnlyFile
    \/ LoadRef
    \/ LoopHead
    \/ GrpoCompute
    \/ GrpoUpdate
    \/ SaveCheckpoint
    \/ PeriodicEvalFile
    \/ FinalSave
    \/ FinalEvalFile

SpecEval == InitEval /\ [][NextEval]_vars

\* What a line of the file was written from, and the queries a file holds.
CoreOf(line) == CHOOSE core \in Cores : line \in Padded(core)
QueryCores == { << "q" >>, << "r", " ", "#", "s" >> }
ExpectedQueries(file) ==
    SelectSeq([ i \in 1 .. Len(file) |-> CoreOf(file[i]) ], LAMBDA c : c \in QueryCores)
NoQueries == \A i \in 1 .. Len(arg) : CoreOf(arg[i]) \notin QueryCores

EvalReturned == result # <<>> /\ arg \in QueryFiles

(***************************************************************************)
(* C22: the summary's total is the number of evaluated queries,            *)
(* min <= avg <= max, and perfect is the number of scores at or above the  *)
(* largest total the scorer can give.                                      *)
(***************************************************************************)
\* C22: total, min <= avg <= max, perfect counts the scores at the maximum.
C22_SummaryOfScores ==
    EvalReturned =>
        LET s == result.summary
        IN  /\ s.total = Len(result.queries)
            /\ s.total = Len(result.scores)
            /\ s.min * s.avg.den <= s.avg.num
            /\ s.avg.num <= s.max * s.avg.den
            /\ s.perfect = Cardinality({ i \in 1 .. Len(result.scores) :
                                           result.scores[i] >= MaxDetailedTotal })
            /\ 0 <= s.perfect /\ s.perfect <= s.total

EvaluationDue ==
    \/ pc \in {"eval_only", "final_eval"}
    \/ pc = "eval" /\ IsEvalStep(step)

C30_State ==
    /\ result # <<>> => (~NoQueries /\ Len(result.queries) >= 1)
    /\ NoQueries => (evals = <<>> /\ result = <<>> /\ pc # "done")
    /\ ~NoQueries => failed # "evaluation"
    /\ (NoQueries /\ pc = "aborted" /\ failed = "evaluation") =>
          /\ args.eval_only => (step = 0 /\ saved = <<>>)
          /\ (Training /\ args.steps = eval_every) =>
                (step = eval_every /\ updates = eval_every /\ FinalSaves = <<>>)
          /\ (Training /\ args.steps = 0) => (step = 0 /\ Len(FinalSaves) = 1)

C30_Move ==
    (NoQueries /\ EvaluationDue) =>
        (pc' = "aborted" /\ failed' = "evaluation" /\ UNCHANGED << evals, result, saved, policy >>)

\* C30: no queries, no summary: evaluate raises and the run ends there.
C30_EmptyQueryListAborts == []C30_State /\ [][C30_Move]_vars

C30_Witness ==
    /\ pc = "aborted"
    /\ failed = "evaluation"
    /\ NoQueries
    /\ Len(arg) = 2
    /\ step = eval_every
    /\ Len(saved) = 1
    /\ evals = <<>>

(***************************************************************************)
(* dataset/schema.py: reorder_hyde_first(items), applied to a list and     *)
(* then to its own output.  arg is the list, result the two outputs.       *)
(***************************************************************************)
MaxItems == 4

\* [item for item in items if item and item[0] == t]
OfType(items, t) == SelectSeq(items, LAMBDA item : item # <<>> /\ item[1] = t)

reorder_lex_first(items) ==
    OfType(items, "lex") \o OfType(items, "hyde") \o OfType(items, "vec")

\* return hyde_items + lex_items + vec_items
reorder_hyde_first(items) ==
    OfType(items, "hyde") \o OfType(items, "lex") \o OfType(items, "vec")

\* [type, text] pairs, an item of no known type, and an empty item.
Items ==
    ({"hyde", "lex", "vec"} \X {"a", "b"}) \cup { << "title", "a" >>, <<>> }

ItemLists == UNION { [ 1 .. n -> Items ] : n \in 0 .. MaxItems }

InitReorder ==
    /\ MainIdle
    /\ pc = "call"
    /\ arg \in ItemLists
    /\ result = <<>>

ReorderOnce ==
    /\ pc = "call"
    /\ result' = << reorder_hyde_first(arg) >>
    /\ pc' = "once"
    /\ UNCHANGED << arg, mainVarsButPc, diskVars, logVars, stepVars >>

ReorderAgain ==
    /\ pc = "once"
    /\ result' = Append(result, reorder_hyde_first(result[1]))
    /\ pc' = "twice"
    /\ UNCHANGED << arg, mainVarsButPc, diskVars, logVars, stepVars >>

NextReorder == ReorderOnce \/ ReorderAgain

SpecReorder == InitReorder /\ [][NextReorder]_vars

(***************************************************************************)
(* C24: reorder_hyde_first leaves a list that is already hyde, then lex,   *)
(* then vec unchanged, keeps the order of the items of one type, and       *)
(* applied twice gives what it gives applied once.                         *)
(***************************************************************************)
Rank(item) == CASE item[1] = "hyde" -> 1 [] item[1] = "lex" -> 2 [] item[1] = "vec" -> 3

AlreadyOrdered(items) ==
    /\ \A i \in 1 .. Len(items) : items[i] # <<>> /\ items[i][1] \in {"hyde", "lex", "vec"}
    /\ \A i \in 1 .. Len(items) - 1 : Rank(items[i]) <= Rank(items[i + 1])

\* The positions of the items of type t, in list order.
TextsOfType(items, t) ==
    LET idx == { i \in 1 .. Len(items) : items[i] # <<>> /\ items[i][1] = t }
        RECURSIVE InOrder(_)
        InOrder(S) == IF S = {} THEN <<>>
                      ELSE LET m == CHOOSE i \in S : \A j \in S : i <= j
                           IN  << items[m][2] >> \o InOrder(S \ {m})
    IN  InOrder(idx)

\* C24: no-op on ordered lists, order within a type kept, idempotent.
C24_ReorderIdempotent ==
    /\ (pc \in {"once", "twice"} /\ arg \in ItemLists) =>
          /\ AlreadyOrdered(arg) => result[1] = arg
          /\ AlreadyOrdered(result[1])
          /\ \A t \in {"hyde", "lex", "vec"} :
                TextsOfType(result[1], t) = TextsOfType(arg, t)
    /\ (pc = "twice" /\ arg \in ItemLists) => result[2] = result[1]

C24_Witness ==
    /\ pc = "twice"
    /\ arg = << << "vec", "b" >>, << "lex", "a" >>, << "hyde", "a" >>, << "lex", "b" >> >>
    /\ result[1] = << << "hyde", "a" >>, << "lex", "a" >>, << "lex", "b" >>, << "vec", "b" >> >>
    /\ result[2] = result[1]

(***************************************************************************)
(* compute_log_prob on its own, slice by slice.  arg is the model's        *)
(* weights, the query of the prompt and the completion's tokens; result    *)
(* holds one record per gathered log-probability and their sum.            *)
(* Positions are counted from 0 as in the code.                            *)
(***************************************************************************)
MaxCompletion == 4

\* s[start:] of a Python sequence
SliceFrom(s, start) ==
    LET from == IF start < 0 THEN Max(0, Len(s) + start) ELSE Min(start, Len(s))
    IN  SubSeq(s, from + 1, Len(s))

\* s[:stop] for stop >= 0
SliceTo(s, stop) == SubSeq(s, 1, Min(stop, Len(s)))

\* tokens, each with its position
Positioned(tokens) == [ k \in 1 .. Len(tokens) |-> [ pos |-> k - 1, tok |-> tokens[k] ] ]

\* model(tokens[None, :-1])[0]: one row of logits per input token, the row at
\* position k computed from the tokens at positions 0 .. k.
LogitRows(tokens) ==
    [ k \in 1 .. Len(tokens) - 1 |-> [ pos |-> k - 1, ctx |-> SubSeq(tokens, 1, k) ] ]

FirstRow_AtPromptLen(prompt_len) == prompt_len

\* logits[prompt_len-1:]
FirstRow(prompt_len) == prompt_len - 1

\* mx.take_along_axis(log_probs[:len(target_tokens)], target_tokens[:, None], axis=-1)
Gathered(w, rows, targets) ==
    [ i \in 1 .. Len(targets) |->
        [ pos |-> targets[i].pos,
          row |-> rows[i].pos,
          lp  |-> TokenLogProb(w, rows[i].ctx, targets[i].tok) ] ]

LogProbInputs ==
    [ w : Weights, q : TRAINING_QUERIES,
      c : UNION { [ 1 .. n -> {0, 1} ] : n \in 0 .. MaxCompletion } ]

InitLogProb ==
    /\ MainIdle
    /\ pc = "call"
    /\ arg \in LogProbInputs
    /\ result = <<>>

LogProbCall ==
    /\ pc = "call"
    /\ LET tokens     == PromptTokens(arg.q) \o arg.c
           prompt_len == Len(PromptTokens(arg.q))
           log_probs  == SliceFrom(LogitRows(tokens), FirstRow(prompt_len))
           targets    == SliceFrom(Positioned(tokens), prompt_len)
           rows       == SliceTo(log_probs, Len(targets))
       IN  IF Len(rows) # Len(targets)
           THEN /\ Raise("shape")
                /\ UNCHANGED result
           ELSE /\ result' = [ terms |-> Gathered(arg.w, rows, targets),
                               sum   |-> SumSeq([ i \in 1 .. Len(targets) |->
                                                    Gathered(arg.w, rows, targets)[i].lp ]) ]
                /\ pc' = "returned"
                /\ UNCHANGED failed
    /\ UNCHANGED << arg, run, args, step, policy, ref, updates >>
    /\ UNCHANGED << diskVars, logVars, stepVars >>

NextLogProb == LogProbCall

SpecLogProb == InitLogProb /\ [][NextLogProb]_vars

(***************************************************************************)
(* C25: compute_log_prob sums one log-probability per completion token and *)
(* none for the prompt: the token at position j >= prompt_len is scored    *)
(* with the logits of position j - 1, there are len(tokens) - prompt_len   *)
(* terms, and an empty completion gives 0.                                 *)
(***************************************************************************)
\* C25: one term per completion token, taken from the logits one position before.
C25_OneTermPerCompletionToken ==
    (pc \in {"returned", "aborted"} /\ arg \in LogProbInputs) =>
        LET prompt_len == Len(PromptTokens(arg.q))
            n          == Len(PromptTokens(arg.q) \o arg.c)
        IN  /\ pc = "returned"
            /\ Len(result.terms) = n - prompt_len
            /\ \A i \in 1 .. Len(result.terms) :
                  /\ result.terms[i].pos = prompt_len + i - 1
                  /\ result.terms[i].row = result.terms[i].pos - 1
                  /\ result.terms[i].lp =
                        TokenLogProb(arg.w,
                                     SubSeq(PromptTokens(arg.q) \o arg.c, 1, result.terms[i].pos),
                                     arg.c[i])
            /\ result.sum = SumSeq([ i \in 1 .. Len(result.terms) |-> result.terms[i].lp ])
            /\ result.sum = compute_log_prob(arg.w, arg.q, arg.c)
            /\ arg.c = <<>> => (result.terms = <<>> /\ result.sum = 0)

C25_Witness ==
    /\ pc = "returned"
    /\ arg.c = << 1, 0, 1 >>
    /\ Len(result.terms) = 3
    /\ result.terms[1].pos = 2 /\ result.terms[1].row = 1
    /\ result.terms[3].pos = 4 /\ result.terms[3].row = 3
    /\ result.sum < 0

(***************************************************************************)
(* C26: a text with format_valid = 0 scores at most 60 and a text with     *)
(* format_valid = 1 at least 80, so every invalid text scores below every  *)
(* valid one; total is a multiple of 10 and never 70.                      *)
(***************************************************************************)
\* C26: the format gate dominates: invalid <= 60 < 80 <= valid, never 70.
C26_FormatGateDominates ==
    Scored =>
        /\ result.format_valid = 0 => result.total <= 60
        /\ result.format_valid = 1 => result.total >= 80
        /\ result.total % 10 = 0
        /\ result.total # 70

C26_Witness ==
    /\ Scored
    /\ result.format_valid = 0
    /\ result.lex_count > 3
    /\ result.vec_count >= 3
    /\ result.total = 60

(***************************************************************************)
(* C27: with all rewards of the group equal the step still runs to its     *)
(* optimizer update: every advantage and so every policy-gradient term is  *)
(* 0, the loss is beta times the mean |policy_lp - ref_lp|, and the update *)
(* is applied once.                                                        *)
(***************************************************************************)
EqualGroup == rewards # <<>> /\ AllEqual(rewards)

\* The triples loss_fn works on, the advantage by its numerator.
TermTriples ==
    [ i \in 1 .. Len(terms) |->
        [ adv |-> terms[i].adv.num, policy_lp |-> terms[i].policy_lp,
          ref_lp |-> terms[i].ref_lp ] ]

C27_State ==
    /\ (pc \in {"ref_lp", "loss", "update"} /\ EqualGroup) =>
          /\ Len(advantages) = num_generations
          /\ \A i \in 1 .. Len(advantages) : advantages[i].num = 0
    /\ (pc = "update" /\ EqualGroup) =>
          /\ Len(terms) = num_generations
          /\ \A i \in 1 .. Len(terms) :
                terms[i].adv.num * terms[i].policy_lp = 0
          /\ loss_fn(TermTriples).loss.num =
                beta_hundredths
                  * SumSeq([ i \in 1 .. Len(terms) |->
                               IF terms[i].kl < 0 THEN 0 - terms[i].kl ELSE terms[i].kl ])
          /\ loss_fn(TermTriples).loss.den = 100 * num_generations

C27_Move ==
    /\ (pc = "score" /\ rewards' # <<>> /\ AllEqual(rewards')) => pc' = "ref_lp"
    /\ (pc \in {"ref_lp", "loss"} /\ EqualGroup) =>
          /\ pc' \in {"ref_lp", "loss", "update", "aborted"}
          /\ updates' = updates /\ policy' = policy
    /\ (pc = "update" /\ EqualGroup) =>
          /\ updates' = updates + 1
          /\ pc' = "save"

\* C27: equal rewards: zero policy-gradient terms, loss = beta * mean |kl|, one update.
C27_DegenerateGroupStillUpdates == []C27_State /\ [][C27_Move]_vars

C27_Witness ==
    /\ pc = "update"
    /\ EqualGroup
    /\ policy # ref
    /\ \E i \in 1 .. Len(terms) : terms[i].kl # 0
    /\ loss_fn(TermTriples).loss.num > 0

(***************************************************************************)
(* C28: at a step that is a multiple of save_every and of eval_every the   *)
(* checkpoint is written before the evaluation; when the last step is such *)
(* a step the run ends with the periodic checkpoint, the final save, the   *)
(* periodic evaluation and the final evaluation, all of the same policy,   *)
(* with no update between them.                                            *)
(***************************************************************************)
BothDue(s) == s > 0 /\ IsSaveStep(s) /\ IsEvalStep(s)

C28_State ==
    /\ (Training /\ pc = "eval" /\ BothDue(step)) =>
          /\ saved # <<>>
          /\ saved[Len(saved)].kind = "periodic"
          /\ saved[Len(saved)].step = step
          /\ \A i \in 1 .. Len(evals) : evals[i].step < step
    /\ (Training /\ pc = "done" /\ BothDue(args.steps)) =>
          /\ Len(saved) >= 2 /\ Len(evals) >= 2
          /\ LET p == saved[Len(saved) - 1]
                 f == saved[Len(saved)]
                 e == evals[Len(evals) - 1]
                 g == evals[Len(evals)]
             IN  /\ p.kind = "periodic" /\ p.step = args.steps
                 /\ f.kind = "final" /\ f.step = args.steps
                 /\ e.kind = "periodic" /\ e.step = args.steps
                 /\ g.kind = "final" /\ g.step = args.steps
                 /\ { p.weights, f.weights, e.weights, g.weights } = { policy }
                 /\ { p.version, f.version, e.version, g.version } = { args.steps }
                 /\ storage[p.path] = storage[f.path]
          /\ updates = args.steps

C28_Move ==
    (Training /\ SameRun) =>
        /\ (pc = "eval" /\ evals' # evals /\ IsSaveStep(step)) =>
              saved[Len(saved)].step = step
        /\ (pc = "save" /\ saved' # saved /\ IsEvalStep(step)) =>
              \A i \in 1 .. Len(evals) : evals[i].step < step
        /\ (BothDue(step) /\ step = args.steps
              /\ pc \in {"save", "eval", "loop", "final_save", "final_eval"}) =>
              (policy' = policy /\ updates' = updates /\ step' = step)

\* C28: checkpoint before evaluation; at a last step due for both, two saves and two evaluations of one policy.
C28_SaveBeforeEvalSamePolicy == []C28_State /\ [][C28_Move]_vars

C28_Witness ==
    /\ Training /\ pc = "done"
    /\ args.steps = 2 * save_every
    /\ BothDue(args.steps)
    /\ Len(saved) = 3 /\ Len(evals) = 3
    /\ saved[2].weights = saved[3].weights
    /\ evals[2].weights = evals[3].weights
    /\ saved[1].weights # saved[2].weights

(***************************************************************************)
(* C29: within one training run the checkpoints of two different steps go  *)
(* to two different directories, the final save goes to neither of them,   *)
(* and so no write of the run replaces an earlier write of the same run.   *)
(***************************************************************************)
\* The directory name is an injective function of the step.
C29_NamesDiffer ==
    \A s \in 1 .. MaxSteps :
       /\ CkptPath(s) # OutputDir
       /\ Len(CkptPath(s)) >= 4
       /\ \A t \in 1 .. MaxSteps : s # t => CkptPath(s) # CkptPath(t)

C29_State ==
    /\ C29_NamesDiffer
    /\ \A i \in 1 .. Len(saved) :
          /\ saved[i].kind = "periodic" => saved[i].path = CkptPath(saved[i].step)
          /\ saved[i].kind = "final" => saved[i].path = OutputDir
          /\ \A j \in 1 .. Len(saved) : i # j => saved[i].path # saved[j].path

C29_Move ==
    (SameRun /\ saved' # saved) =>
        /\ saved'[Len(saved')].path \notin WrittenThisRun
        /\ \A p \in WrittenThisRun :
              p \in DOMAIN storage' /\ storage'[p] = storage[p]

\* C29: the writes of one run go to pairwise different directories.
C29_RunNeverRewritesItsFiles == []C29_State /\ [][C29_Move]_vars

C29_Witness ==
    /\ Training /\ pc = "done"
    /\ Len(saved) = 3
    /\ saved[1].path = CkptPath(save_every)
    /\ saved[2].path = CkptPath(2 * save_every)
    /\ saved[3].path = OutputDir
    /\ storage[saved[1].path] # storage[saved[2].path]
    /\ run = 2

====
